---- MODULE Spec2Model ----
(***************************************************************************)
(* A model of colossalai/tensor/process_group.py (PyTorchProcessGroupDict, *)
(* ProcessGroup) and colossalai/zero/shard_param/shard_param.py            *)
(* (ShardParam).  One process is modelled for the process-group part: its  *)
(* process-wide cache, the ProcessGroup objects it constructs and the list *)
(* object its caller passes as `ranks`.  The shard/gather part models the  *)
(* ranks of one group, each holding one ShardParam.                        *)
(***************************************************************************)
EXTENDS Integers, Sequences, FiniteSets, TLC

\* ------------------------------------------------------------- bounds
\* Global ranks are 0..MaxRank; the distributed runtime's world is all of them.
MaxRank == 3
\* The largest degree a caller passes as tp_degree / dp_degree.
MaxDeg == 4
\* The number of ProcessGroup constructor calls the process makes.
NumPG == 2
\* The number of direct PYTORCHPGDICT_.get calls the process makes.
MaxGets == 1
\* The largest number of elements of a sharded tensor.
MaxNumel == 10
\* The largest number of ranks of the group a tensor is sharded over.
MaxGroup == 4
\* The largest number of shard()/gather() calls in the program every rank runs.
MaxCalls == 2

\* Python's None for an Optional[int] argument or attribute.
NONE == -1
\* Python's None where a list is expected (_tp_rank_list = None).
NoList == <<NONE>>

Ranks == 0..MaxRank
Backends == {"nccl", "gloo"}
DegreeArgs == {NONE} \cup (0..MaxDeg)
RankArgs == {NONE} \cup Ranks
\* The ranks the runtime reports for the modelled process: the first or the
\* last rank of the world.
RuntimeRanks == {0, MaxRank}

\* ------------------------------------------------------------ helpers
InList(x, s) == \E i \in 1..Len(s) : s[i] = x
SeqToSet(s) == {s[i] : i \in 1..Len(s)}
Reverse(s) == [i \in 1..Len(s) |-> s[Len(s) + 1 - i]]

RECURSIVE Ascending(_)
Ascending(S) ==
    IF S = {} THEN <<>>
    ELSE LET m == CHOOSE x \in S : \A y \in S : x <= y
         IN  <<m>> \o Ascending(S \ {m})

\* The rank lists a caller holds: distinct ranks, in ascending or descending order.
CallerLists ==
    {Ascending(S) : S \in (SUBSET Ranks) \ {{}}}
        \cup {Reverse(Ascending(S)) : S \in (SUBSET Ranks) \ {{}}}

\* A sort that leaves the list as it is.
ListSortNoop(s) == s

\* list.sort() on a list of ints.
ListSort(s) == SortSeq(s, LAMBDA a, b : a < b)

\* list(range(torch.distributed.get_world_size()))
RuntimeRankList == [i \in 1..(MaxRank + 1) |-> i - 1]

\* --------------------------------------------------------------- state
VARIABLES
    initialized,    \* torch.distributed.is_initialized()
    rt_rank,        \* torch.distributed.get_rank() of this process
    dict,           \* PYTORCHPGDICT_.dict: (backend, rank tuple) -> group handle
    createLog,      \* the torch.distributed.new_group calls issued, in order
    pg,             \* the ProcessGroup objects, by slot
    callerList,     \* the list object the caller passes as `ranks`
    ngets,          \* the direct PYTORCHPGDICT_.get calls made so far
    tensor,         \* the parameter wrapped on every rank: group size, numel, shape
    sp,             \* the ShardParam of each rank of the group
    net,            \* the all_gather in flight: the tensor each rank has contributed
    last,           \* the last call: its arguments and its outcome
    prog            \* the calls every rank of the group runs, and each rank's place

pgvars == <<initialized, rt_rank, dict, createLog, pg, callerList, ngets, last>>
spvars == <<tensor, sp, net, prog>>
vars == <<initialized, rt_rank, dict, createLog, pg, callerList, ngets, last,
          tensor, sp, net, prog>>

Slots == 1..NumPG

\* A slot in which no ProcessGroup has been constructed.
NoPG ==
    [status |-> "none", rank |-> NONE, rank_list |-> <<>>, world_size |-> 0,
     tp_degree |-> NONE, dp_degree |-> NONE,
     tp_rank_list |-> NoList, dp_rank_list |-> NoList, has_cpu_groups |-> FALSE]

\* The object left by __init__'s early return: only is_init = False is set.
UninitPG == [NoPG EXCEPT !.status = "uninit"]

NoCall ==
    [op |-> "none", slot |-> 0, rank |-> NONE, ranks |-> NoList, backend |-> "",
     tp |-> NONE, dp |-> NONE, ok |-> TRUE, ret |-> NONE, pre |-> 0]

\* ------------------------------------------------- PyTorchProcessGroupDict
PgKey(backend, rank_list) == [backend |-> backend, ranks |-> rank_list]

\* A get that never finds a key: every call creates a group.
DictGetAlwaysNew(d, lg, init, rank_list, backend) ==
    LET pg_key == PgKey(backend, rank_list)
        h == Len(lg) + 1
    IN  IF ~init
        THEN [dict |-> d, log |-> lg, ok |-> FALSE, ret |-> NONE]
        ELSE [dict |-> [k \in DOMAIN d \cup {pg_key} |->
                           IF k = pg_key THEN h ELSE d[k]],
              log |-> Append(lg, pg_key), ok |-> TRUE, ret |-> h]

\* PyTorchProcessGroupDict.get on cache d with call log lg.  A handle is the
\* position of its new_group call in the log.  new_group raises while the
\* distributed runtime is not initialized.
DictGet(d, lg, init, rank_list, backend) ==
    LET pg_key == PgKey(backend, rank_list)
    IN  IF pg_key \in DOMAIN d
        THEN [dict |-> d, log |-> lg, ok |-> TRUE, ret |-> d[pg_key]]
        ELSE IF ~init
        THEN [dict |-> d, log |-> lg, ok |-> FALSE, ret |-> NONE]
        ELSE LET h == Len(lg) + 1
             IN  [dict |-> [k \in DOMAIN d \cup {pg_key} |->
                               IF k = pg_key THEN h ELSE d[k]],
                  log |-> Append(lg, pg_key), ok |-> TRUE, ret |-> h]

\* ------------------------------------------------------- ProcessGroup
\* Python truthiness of an Optional[int].
Truthy(x) == x # NONE /\ x # 0

DegreeFail == [ok |-> FALSE, dp |-> NONE, tp |-> NONE]

\* The degree resolution of __init__.  int * None raises TypeError.
ResolveDegrees(world_size, tp_degree, dp_degree) ==
    IF dp_degree = NONE /\ tp_degree = NONE
    THEN [ok |-> TRUE, dp |-> world_size, tp |-> 1]
    ELSE IF Truthy(dp_degree) /\ ~Truthy(tp_degree)
    THEN IF world_size % dp_degree = 0
         THEN [ok |-> TRUE, dp |-> dp_degree, tp |-> world_size \div dp_degree]
         ELSE DegreeFail
    ELSE IF ~Truthy(dp_degree) /\ Truthy(tp_degree)
    THEN IF world_size % tp_degree = 0
         THEN [ok |-> TRUE, dp |-> world_size \div tp_degree, tp |-> tp_degree]
         ELSE DegreeFail
    ELSE IF dp_degree = NONE \/ tp_degree = NONE
    THEN DegreeFail
    ELSE IF dp_degree * tp_degree = world_size
         THEN [ok |-> TRUE, dp |-> dp_degree, tp |-> tp_degree]
         ELSE DegreeFail

\* [rank_list[i * tp_degree + j] for j in range(tp_degree)]
TpList(rank_list, tp_degree, i) ==
    [j \in 1..tp_degree |-> rank_list[i * tp_degree + (j - 1) + 1]]

\* A column built with stride 1 instead of tp_degree.
DpListStrideOne(rank_list, tp_degree, dp_degree, j) ==
    [i \in 1..dp_degree |-> rank_list[(i - 1) + j + 1]]

\* [rank_list[i * tp_degree + j] for i in range(dp_degree)]
DpList(rank_list, tp_degree, dp_degree, j) ==
    [i \in 1..dp_degree |-> rank_list[(i - 1) * tp_degree + j + 1]]

\* A first loop that creates only the group of the row that holds rank.
RECURSIVE InitTpLoopOwnRow(_, _, _, _, _, _, _, _)
InitTpLoopOwnRow(d, lg, sel, rank, rank_list, tp_degree, dp_degree, i) ==
    IF i >= dp_degree THEN [dict |-> d, log |-> lg, sel |-> sel]
    ELSE LET i_tp_list == TpList(rank_list, tp_degree, i)
             mine == InList(rank, i_tp_list)
             g == IF mine THEN DictGet(d, lg, TRUE, i_tp_list, "nccl")
                  ELSE [dict |-> d, log |-> lg]
         IN  InitTpLoopOwnRow(g.dict, g.log, IF mine THEN i_tp_list ELSE sel,
                              rank, rank_list, tp_degree, dp_degree, i + 1)

\* The first loop of __init__, from index i on: registers every row under
\* 'nccl' and keeps the row that holds rank.
RECURSIVE InitTpLoop(_, _, _, _, _, _, _, _)
InitTpLoop(d, lg, sel, rank, rank_list, tp_degree, dp_degree, i) ==
    IF i >= dp_degree THEN [dict |-> d, log |-> lg, sel |-> sel]
    ELSE LET i_tp_list == TpList(rank_list, tp_degree, i)
             g == DictGet(d, lg, TRUE, i_tp_list, "nccl")
         IN  InitTpLoop(g.dict, g.log,
                        IF InList(rank, i_tp_list) THEN i_tp_list ELSE sel,
                        rank, rank_list, tp_degree, dp_degree, i + 1)

\* A second loop that only picks the column of rank and leaves the creation
\* of the column groups to the first dp_process_group call.
RECURSIVE InitDpLoopLazy(_, _, _, _, _, _, _, _)
InitDpLoopLazy(d, lg, sel, rank, rank_list, tp_degree, dp_degree, j) ==
    IF j >= tp_degree THEN [dict |-> d, log |-> lg, sel |-> sel]
    ELSE LET j_dp_list == DpList(rank_list, tp_degree, dp_degree, j)
         IN  InitDpLoopLazy(d, lg,
                            IF InList(rank, j_dp_list) THEN j_dp_list ELSE sel,
                            rank, rank_list, tp_degree, dp_degree, j + 1)

\* The second loop of __init__, from index j on: registers every column under
\* 'nccl' and keeps the column that holds rank.
RECURSIVE InitDpLoop(_, _, _, _, _, _, _, _)
InitDpLoop(d, lg, sel, rank, rank_list, tp_degree, dp_degree, j) ==
    IF j >= tp_degree THEN [dict |-> d, log |-> lg, sel |-> sel]
    ELSE LET j_dp_list == DpList(rank_list, tp_degree, dp_degree, j)
             g == DictGet(d, lg, TRUE, j_dp_list, "nccl")
         IN  InitDpLoop(g.dict, g.log,
                        IF InList(rank, j_dp_list) THEN j_dp_list ELSE sel,
                        rank, rank_list, tp_degree, dp_degree, j + 1)

\* ProcessGroup.__init__ with the runtime initialized, as a function of its
\* arguments, the cache and the call log.  ranks is NoList for ranks=None.
InitResult(d, lg, rtr, rank, ranks, tp_degree, dp_degree) ==
    LET _rank == IF rank = NONE THEN rtr ELSE rank
        _rank_list == IF ranks = NoList THEN RuntimeRankList ELSE ListSort(ranks)
        _world_size == Len(_rank_list)
        deg == ResolveDegrees(_world_size, tp_degree, dp_degree)
    IN  IF ~deg.ok
        THEN [ok |-> FALSE, dict |-> d, log |-> lg, pg |-> NoPG]
        ELSE LET rows == InitTpLoop(d, lg, NoList, _rank, _rank_list,
                                    deg.tp, deg.dp, 0)
                 cols == InitDpLoop(rows.dict, rows.log, NoList, _rank,
                                    _rank_list, deg.tp, deg.dp, 0)
             IN  [ok |-> TRUE, dict |-> cols.dict, log |-> cols.log,
                  pg |-> [status |-> "ok", rank |-> _rank,
                          rank_list |-> _rank_list, world_size |-> _world_size,
                          tp_degree |-> deg.tp, dp_degree |-> deg.dp,
                          tp_rank_list |-> rows.sel, dp_rank_list |-> cols.sel,
                          has_cpu_groups |-> FALSE]]

\* The first loop of set_cpu_groups, from index i on.
RECURSIVE CpuTpLoop(_, _, _, _, _, _)
CpuTpLoop(d, lg, rank_list, tp_degree, dp_degree, i) ==
    IF i >= dp_degree THEN [dict |-> d, log |-> lg]
    ELSE LET i_tp_list == TpList(rank_list, tp_degree, i)
             g == DictGet(d, lg, TRUE, i_tp_list, "gloo")
         IN  CpuTpLoop(g.dict, g.log, rank_list, tp_degree, dp_degree, i + 1)

\* The second loop of set_cpu_groups, from index j on.
RECURSIVE CpuDpLoop(_, _, _, _, _, _)
CpuDpLoop(d, lg, rank_list, tp_degree, dp_degree, j) ==
    IF j >= tp_degree THEN [dict |-> d, log |-> lg]
    ELSE LET j_dp_list == DpList(rank_list, tp_degree, dp_degree, j)
             g == DictGet(d, lg, TRUE, j_dp_list, "gloo")
         IN  CpuDpLoop(g.dict, g.log, rank_list, tp_degree, dp_degree, j + 1)

\* A set_cpu_groups that registers the CPU groups and never sets the flag.
SetCpuResultNoFlag(d, lg, p) ==
    IF p.status # "ok"
    THEN [ok |-> FALSE, dict |-> d, log |-> lg, pg |-> p]
    ELSE IF p.has_cpu_groups
    THEN [ok |-> TRUE, dict |-> d, log |-> lg, pg |-> p]
    ELSE LET rows == CpuTpLoop(d, lg, p.rank_list, p.tp_degree, p.dp_degree, 0)
             cols == CpuDpLoop(rows.dict, rows.log, p.rank_list,
                               p.tp_degree, p.dp_degree, 0)
         IN  [ok |-> TRUE, dict |-> cols.dict, log |-> cols.log, pg |-> p]

\* A set_cpu_groups that reads a missing _has_cpu_groups as False: on an
\* object left by the early return it runs no loop and sets the flag.
SetCpuResultDefaultFlag(d, lg, p) ==
    IF p.status \notin {"ok", "uninit"}
    THEN [ok |-> FALSE, dict |-> d, log |-> lg, pg |-> p]
    ELSE IF p.has_cpu_groups
    THEN [ok |-> TRUE, dict |-> d, log |-> lg, pg |-> p]
    ELSE LET rows == CpuTpLoop(d, lg, p.rank_list, p.tp_degree, p.dp_degree, 0)
             cols == CpuDpLoop(rows.dict, rows.log, p.rank_list,
                               p.tp_degree, p.dp_degree, 0)
         IN  [ok |-> TRUE, dict |-> cols.dict, log |-> cols.log,
              pg |-> [p EXCEPT !.has_cpu_groups = TRUE]]

\* ProcessGroup.set_cpu_groups on object p.  An object left by the early
\* return of __init__ has no _has_cpu_groups attribute: AttributeError.
SetCpuResult(d, lg, p) ==
    IF p.status # "ok"
    THEN [ok |-> FALSE, dict |-> d, log |-> lg, pg |-> p]
    ELSE IF p.has_cpu_groups
    THEN [ok |-> TRUE, dict |-> d, log |-> lg, pg |-> p]
    ELSE LET rows == CpuTpLoop(d, lg, p.rank_list, p.tp_degree, p.dp_degree, 0)
             cols == CpuDpLoop(rows.dict, rows.log, p.rank_list,
                               p.tp_degree, p.dp_degree, 0)
         IN  [ok |-> TRUE, dict |-> cols.dict, log |-> cols.log,
              pg |-> [p EXCEPT !.has_cpu_groups = TRUE]]

GroupFail(d, lg) == [dict |-> d, log |-> lg, ok |-> FALSE, ret |-> NONE]

\* PYTORCHPGDICT_.get(rank_list, backend) as the accessors call it:
\* tuple(None) raises TypeError.
GroupOf(d, lg, rank_list, backend) ==
    IF rank_list = NoList THEN GroupFail(d, lg)
    ELSE DictGet(d, lg, TRUE, rank_list, backend)

\* dp_process_group / tp_process_group
DpProcessGroup(d, lg, p) ==
    IF p.status # "ok" THEN GroupFail(d, lg)
    ELSE GroupOf(d, lg, p.dp_rank_list, "nccl")

TpProcessGroup(d, lg, p) ==
    IF p.status # "ok" THEN GroupFail(d, lg)
    ELSE GroupOf(d, lg, p.tp_rank_list, "nccl")

\* cpu_dp_process_group / cpu_tp_process_group: assert self._has_cpu_groups
CpuDpProcessGroup(d, lg, p) ==
    IF p.status # "ok" \/ ~p.has_cpu_groups THEN GroupFail(d, lg)
    ELSE GroupOf(d, lg, p.dp_rank_list, "gloo")

CpuTpProcessGroup(d, lg, p) ==
    IF p.status # "ok" \/ ~p.has_cpu_groups THEN GroupFail(d, lg)
    ELSE GroupOf(d, lg, p.tp_rank_list, "gloo")

Accessors == {"dp", "tp", "cpu_dp", "cpu_tp"}

AccessorResult(d, lg, p, which) ==
    CASE which = "dp" -> DpProcessGroup(d, lg, p)
      [] which = "tp" -> TpProcessGroup(d, lg, p)
      [] which = "cpu_dp" -> CpuDpProcessGroup(d, lg, p)
      [] OTHER -> CpuTpProcessGroup(d, lg, p)

\* The outcome of a read-only accessor: a value, or an exception.
Returns(v) == [ok |-> TRUE, val |-> v]
Raises == [ok |-> FALSE, val |-> NONE]

\* rank / ranks_in_group / world_size / tp_rank_list / dp_rank_list: an object
\* left by the early return has none of the attributes (AttributeError).
RankOf(p) == IF p.status # "ok" THEN Raises ELSE Returns(p.rank)
RanksInGroup(p) == IF p.status # "ok" THEN Raises ELSE Returns(p.rank_list)
WorldSize(p) == IF p.status # "ok" THEN Raises ELSE Returns(p.world_size)
TpRankList(p) == IF p.status # "ok" THEN Raises ELSE Returns(p.tp_rank_list)
DpRankList(p) == IF p.status # "ok" THEN Raises ELSE Returns(p.dp_rank_list)

\* tp_local_rank / dp_local_rank
TpLocalRank(p) ==
    IF p.status # "ok" THEN Raises ELSE Returns(p.rank % p.tp_degree)
DpLocalRank(p) ==
    IF p.status # "ok" THEN Raises ELSE Returns(p.rank \div p.tp_degree)

\* dp_world_size / tp_world_size: len(None) raises TypeError.
DpWorldSize(p) ==
    IF p.status # "ok" \/ p.dp_rank_list = NoList THEN Raises
    ELSE Returns(Len(p.dp_rank_list))
TpWorldSize(p) ==
    IF p.status # "ok" \/ p.tp_rank_list = NoList THEN Raises
    ELSE Returns(Len(p.tp_rank_list))

\* An __eq__ that compares the grid only: the world ranks and the degrees.
ProcessGroupEqGridOnly(p, q) ==
    IF p.status # "ok" \/ q.status # "ok" THEN Raises
    ELSE IF p.rank_list # q.rank_list THEN Returns(FALSE)
    ELSE IF p.tp_degree # q.tp_degree THEN Returns(FALSE)
    ELSE IF p.dp_degree # q.dp_degree THEN Returns(FALSE)
    ELSE Returns(TRUE)

\* ProcessGroup.__eq__ between two ProcessGroup objects: an object left by
\* the early return has no _rank (AttributeError).
ProcessGroupEq(p, q) ==
    IF p.status # "ok" \/ q.status # "ok" THEN Raises
    ELSE IF p.rank # q.rank THEN Returns(FALSE)
    ELSE IF p.rank_list # q.rank_list THEN Returns(FALSE)
    ELSE IF p.tp_rank_list # q.tp_rank_list THEN Returns(FALSE)
    ELSE IF p.dp_rank_list # q.dp_rank_list THEN Returns(FALSE)
    ELSE IF p.tp_degree # q.tp_degree THEN Returns(FALSE)
    ELSE IF p.dp_degree # q.dp_degree THEN Returns(FALSE)
    ELSE Returns(TRUE)

\* --------------------------------------------------------- ShardParam
\* No tensor is wrapped (the process-group specifications).
NoTensor == [world_size |-> 0, numel |-> 0, shape |-> <<>>, data |-> "none"]

Zeros(n) == [i \in 1..n |-> 0]

\* The shapes of a tensor of n elements: flat, or two rows.
Shapes(n) == {<<n>>} \cup (IF n % 2 = 0 THEN {<<2, n \div 2>>} ELSE {})

\* The elements (flattened) that rank r's parameter holds at construction:
\* the same on every rank (param.data), or its own on each (param.grad).
ParamData(t, r) ==
    [i \in 1..t.numel |-> IF t.data = "same" THEN i ELSE 100 * (r + 1) + i]

\* ceil(numel / world_size)
ChunkSize(numel, world_size) == (numel + world_size - 1) \div world_size

\* get_shard(tensor, rank, world_size): the rank-th chunk of the flattened
\* tensor padded with zeros to world_size equal chunks.
GetShard(flat, rank, world_size) ==
    LET chunk == ChunkSize(Len(flat), world_size)
        padded == flat \o Zeros(chunk * world_size - Len(flat))
    IN  SubSeq(padded, rank * chunk + 1, (rank + 1) * chunk)

\* The buffer_list gather() builds: its own payload at local_rank and
\* torch.zeros(payload_numel) for every other rank.
GatherBuffers(payload, local_rank, world_size) ==
    [i \in 1..world_size |->
        IF i - 1 = local_rank THEN payload ELSE Zeros(Len(payload))]

\* An all_gather that delivers nothing: every rank keeps the buffers it built.
AllGatherNothing(buffer_list, contributed) == buffer_list

\* torch.distributed.all_gather(tensor_list, tensor): tensor_list[i] receives
\* the tensor rank i contributed.
AllGatherInto(buffer_list, contributed) ==
    [i \in 1..Len(buffer_list) |-> contributed[i - 1]]

\* torch.cat(buffer_list)
RECURSIVE Cat(_)
Cat(buffer_list) ==
    IF buffer_list = <<>> THEN <<>>
    ELSE Head(buffer_list) \o Cat(Tail(buffer_list))

\* A gather that keeps the last origin_numel elements instead of the first.
GatherPayloadTail(buffer_list, origin_numel) ==
    SubSeq(Cat(buffer_list), Len(Cat(buffer_list)) - origin_numel + 1,
           Len(Cat(buffer_list)))

\* A gather that keeps the whole concatenation, padding included.
GatherPayloadNoNarrow(buffer_list, origin_numel) == Cat(buffer_list)

\* torch.narrow(torch.cat(buffer_list), 0, 0, origin_numel)
GatherPayload(buffer_list, origin_numel) ==
    SubSeq(Cat(buffer_list), 1, origin_numel)

GroupRanks == 0..(tensor.world_size - 1)

\* No program is fixed: the ranks call shard() and gather() as they like.
NoProg == [script |-> <<>>, at |-> <<>>]

\* The programs a rank runs: up to MaxCalls calls of shard() and gather().
Scripts == UNION {[1..n -> {"shard", "gather"}] : n \in 1..MaxCalls}

\* ShardParam.__init__ on rank r.
NewShardParam(t, r) ==
    [payload |-> ParamData(t, r), shape |-> t.shape, is_shared |-> FALSE,
     pc |-> "idle", buffer_list |-> <<>>, did |-> "init"]

\* ------------------------------------------------------------- actions
InitCommon ==
    /\ initialized = FALSE
    /\ rt_rank = NONE
    /\ dict = << >>
    /\ createLog = << >>
    /\ pg = [s \in Slots |-> NoPG]
    /\ ngets = 0
    /\ last = NoCall
    /\ tensor = NoTensor
    /\ sp = << >>
    /\ net = << >>
    /\ prog = NoProg

Init ==
    /\ InitCommon
    /\ callerList \in CallerLists

\* torch.distributed.init_process_group: the runtime reports this process's rank.
InitDistributed(r) ==
    /\ ~initialized
    /\ initialized' = TRUE
    /\ rt_rank' = r
    /\ UNCHANGED <<dict, createLog, pg, callerList, ngets, last, spvars>>

\* The s-th constructor call, ProcessGroup(rank, ranks, tp_degree, dp_degree).
\* given says whether the caller passes its list as `ranks`.  A call that
\* raises leaves no object.
Construct(s, rank, given, tp_degree, dp_degree) ==
    /\ pg[s].status = "none"
    /\ \A t \in Slots : t < s => pg[t].status # "none"
    /\ IF ~initialized
       THEN /\ pg' = [pg EXCEPT ![s] = UninitPG]
            /\ last' = [NoCall EXCEPT !.op = "construct", !.slot = s,
                           !.rank = rank,
                           !.ranks = IF given THEN callerList ELSE NoList,
                           !.tp = tp_degree, !.dp = dp_degree,
                           !.pre = Len(createLog)]
            /\ UNCHANGED <<dict, createLog, callerList>>
       ELSE LET r == InitResult(dict, createLog, rt_rank, rank,
                                IF given THEN callerList ELSE NoList,
                                tp_degree, dp_degree)
            IN  /\ dict' = r.dict
                /\ createLog' = r.log
                /\ pg' = [pg EXCEPT ![s] =
                             IF r.ok THEN r.pg ELSE [NoPG EXCEPT !.status = "failed"]]
                /\ callerList' = IF given THEN ListSort(callerList) ELSE callerList
                /\ last' = [NoCall EXCEPT !.op = "construct", !.slot = s,
                               !.rank = rank,
                               !.ranks = IF given THEN callerList ELSE NoList,
                               !.tp = tp_degree, !.dp = dp_degree,
                               !.ok = r.ok, !.pre = Len(createLog)]
    /\ UNCHANGED <<initialized, rt_rank, ngets, spvars>>

\* pg[s].set_cpu_groups()
SetCpuGroups(s) ==
    /\ pg[s].status \in {"ok", "uninit"}
    /\ LET r == SetCpuResult(dict, createLog, pg[s])
       IN  /\ dict' = r.dict
           /\ createLog' = r.log
           /\ pg' = [pg EXCEPT ![s] = r.pg]
           /\ last' = [NoCall EXCEPT !.op = "set_cpu_groups", !.slot = s,
                          !.ok = r.ok, !.pre = Len(createLog)]
    /\ UNCHANGED <<initialized, rt_rank, callerList, ngets, spvars>>

\* One of the four group-handle accessors of pg[s].
GroupAccessor(s, which) ==
    /\ pg[s].status \in {"ok", "uninit"}
    /\ LET r == AccessorResult(dict, createLog, pg[s], which)
       IN  /\ dict' = r.dict
           /\ createLog' = r.log
           /\ last' = [NoCall EXCEPT !.op = which, !.slot = s, !.ok = r.ok,
                          !.ret = r.ret, !.pre = Len(createLog)]
    /\ UNCHANGED <<initialized, rt_rank, pg, callerList, ngets, spvars>>

\* PYTORCHPGDICT_.get(rank_list, backend) called directly.
CacheGet(rank_list, backend) ==
    /\ ngets < MaxGets
    /\ ngets' = ngets + 1
    /\ LET r == DictGet(dict, createLog, initialized, rank_list, backend)
       IN  /\ dict' = r.dict
           /\ createLog' = r.log
           /\ last' = [NoCall EXCEPT !.op = "get", !.ranks = rank_list,
                          !.backend = backend, !.ok = r.ok, !.ret = r.ret,
                          !.pre = Len(createLog)]
    /\ UNCHANGED <<initialized, rt_rank, pg, callerList, spvars>>

\* One process constructing one ProcessGroup from any caller list.
Next ==
    \/ \E r \in RuntimeRanks : InitDistributed(r)
    \/ \E rank \in RankArgs, given \in BOOLEAN,
          tp_degree \in DegreeArgs, dp_degree \in DegreeArgs :
          Construct(1, rank, given, tp_degree, dp_degree)
    \/ SetCpuGroups(1)
    \/ \E which \in Accessors : GroupAccessor(1, which)

Spec == Init /\ [][Next]_vars

\* One process of a running job over the whole world: the runtime is
\* initialized, the caller's list names every rank in descending order, every
\* constructor call passes it as `ranks` with tp_degree or no degree, and
\* self_rank is the runtime's.
InitJob ==
    /\ initialized = TRUE
    /\ rt_rank \in RuntimeRanks
    /\ dict = << >>
    /\ createLog = << >>
    /\ pg = [s \in Slots |-> NoPG]
    /\ ngets = 0
    /\ last = NoCall
    /\ tensor = NoTensor
    /\ sp = << >>
    /\ net = << >>
    /\ prog = NoProg
    /\ callerList = Reverse(RuntimeRankList)

NextJob ==
    \/ \E s \in Slots, tp_degree \in DegreeArgs :
          Construct(s, NONE, TRUE, tp_degree, NONE)
    \/ \E s \in Slots : SetCpuGroups(s)
    \/ \E s \in Slots, which \in Accessors : GroupAccessor(s, which)
    \/ \E rank_list \in {callerList, Reverse(callerList)}, backend \in Backends :
          CacheGet(rank_list, backend)

SpecJob == InitJob /\ [][NextJob]_vars

\* One process of rank 0 constructing ProcessGroups to compare: over its own
\* list (two ranks or the whole world, descending) or over the runtime's
\* world, as itself, as rank 1 or as the last rank.
InitPair ==
    /\ initialized = TRUE
    /\ rt_rank = 0
    /\ dict = << >>
    /\ createLog = << >>
    /\ pg = [s \in Slots |-> NoPG]
    /\ ngets = 0
    /\ last = NoCall
    /\ tensor = NoTensor
    /\ sp = << >>
    /\ net = << >>
    /\ prog = NoProg
    /\ callerList \in {<<1, 0>>, Reverse(RuntimeRankList)}

NextPair ==
    \E s \in Slots, rank \in {NONE, 1, MaxRank}, given \in BOOLEAN,
       tp_degree \in DegreeArgs :
       Construct(s, rank, given, tp_degree, NONE)

SpecPair == InitPair /\ [][NextPair]_vars

\* The ranks of one group, each wrapping the same-shaped parameter.
InitShard ==
    /\ initialized = TRUE
    /\ rt_rank = 0
    /\ dict = << >>
    /\ createLog = << >>
    /\ pg = [s \in Slots |-> NoPG]
    /\ callerList = RuntimeRankList
    /\ ngets = 0
    /\ last = NoCall
    /\ \E g \in 1..MaxGroup, n \in 1..MaxNumel :
          \E shape \in Shapes(n), data \in {"same", "own"} :
             tensor = [world_size |-> g, numel |-> n, shape |-> shape, data |-> data]
    /\ sp = [r \in GroupRanks |-> NewShardParam(tensor, r)]
    /\ net = [r \in GroupRanks |-> <<>>]
    /\ prog = NoProg

\* A shard() without the is_shared check: it shards whatever it holds.
ShardAlways(r) ==
    /\ sp[r].pc = "idle"
    /\ sp' = [sp EXCEPT ![r].payload =
                             GetShard(sp[r].payload, r, tensor.world_size),
                         ![r].shape = <<ChunkSize(tensor.numel, tensor.world_size)>>,
                         ![r].is_shared = TRUE,
                         ![r].did = "shard"]
    /\ UNCHANGED <<pgvars, tensor, net>>

\* sp[r].shard()
Shard(r) ==
    /\ sp[r].pc = "idle"
    /\ IF sp[r].is_shared
       THEN sp' = [sp EXCEPT ![r].did = "shard_noop"]
       ELSE sp' = [sp EXCEPT ![r].payload =
                                  GetShard(sp[r].payload, r, tensor.world_size),
                              ![r].shape = <<ChunkSize(tensor.numel, tensor.world_size)>>,
                              ![r].is_shared = TRUE,
                              ![r].did = "shard"]
    /\ UNCHANGED <<pgvars, tensor, net>>

\* sp[r].gather() up to its all_gather call: returns at once when the payload
\* is whole, else builds buffer_list and contributes its own entry.
GatherEnter(r) ==
    /\ sp[r].pc = "idle"
    /\ IF ~sp[r].is_shared
       THEN /\ sp' = [sp EXCEPT ![r].did = "gather_noop"]
            /\ UNCHANGED net
       ELSE /\ net[r] = <<>>
            /\ LET buffer_list == GatherBuffers(sp[r].payload, r, tensor.world_size)
               IN  /\ sp' = [sp EXCEPT ![r].pc = "all_gather",
                                       ![r].buffer_list = buffer_list]
                   /\ net' = [net EXCEPT ![r] = buffer_list[r + 1]]
    /\ UNCHANGED <<pgvars, tensor>>

\* An all_gather that completes for the ranks that have entered it without
\* waiting for the others.
AllGatherNoWait ==
    /\ \E r \in GroupRanks : sp[r].pc = "all_gather"
    /\ sp' = [r \in GroupRanks |->
                 IF sp[r].pc # "all_gather" THEN sp[r]
                 ELSE [sp[r] EXCEPT !.pc = "gathered",
                                    !.buffer_list = AllGatherInto(sp[r].buffer_list, net)]]
    /\ net' = [r \in GroupRanks |-> IF sp[r].pc = "all_gather" THEN <<>> ELSE net[r]]
    /\ UNCHANGED <<pgvars, tensor>>

\* The collective completes once every rank of the group has entered it:
\* each rank's tensor_list is filled with what the ranks contributed.
AllGather ==
    /\ \A r \in GroupRanks : sp[r].pc = "all_gather"
    /\ sp' = [r \in GroupRanks |->
                 [sp[r] EXCEPT !.pc = "gathered",
                               !.buffer_list = AllGatherInto(sp[r].buffer_list, net)]]
    /\ net' = [r \in GroupRanks |-> <<>>]
    /\ UNCHANGED <<pgvars, tensor>>

\* sp[r].gather() after all_gather returned.
GatherReturn(r) ==
    /\ sp[r].pc = "gathered"
    /\ sp' = [sp EXCEPT ![r].payload =
                             GatherPayload(sp[r].buffer_list, tensor.numel),
                         ![r].shape = tensor.shape,
                         ![r].is_shared = FALSE,
                         ![r].buffer_list = <<>>,
                         ![r].pc = "idle",
                         ![r].did = "gather"]
    /\ UNCHANGED <<pgvars, tensor, net>>

NextShard ==
    \/ \E r \in GroupRanks : Shard(r) /\ UNCHANGED prog
    \/ \E r \in GroupRanks : GatherEnter(r) /\ UNCHANGED prog
    \/ AllGather /\ UNCHANGED prog
    \/ \E r \in GroupRanks : GatherReturn(r) /\ UNCHANGED prog

SpecShard == InitShard /\ [][NextShard]_vars

\* Every rank of one group runs the same program of shard() and gather()
\* calls on its own parameter, each at its own pace.
InitBarrier ==
    /\ initialized = TRUE
    /\ rt_rank = 0
    /\ dict = << >>
    /\ createLog = << >>
    /\ pg = [s \in Slots |-> NoPG]
    /\ callerList = RuntimeRankList
    /\ ngets = 0
    /\ last = NoCall
    /\ \E g \in 1..MaxGroup :
          tensor = [world_size |-> g, numel |-> MaxNumel, shape |-> <<MaxNumel>>,
                    data |-> "own"]
    /\ sp = [r \in GroupRanks |-> NewShardParam(tensor, r)]
    /\ net = [r \in GroupRanks |-> <<>>]
    /\ \E script \in Scripts : prog = [script |-> script, at |-> [r \in GroupRanks |-> 1]]

\* The call rank r is to make next, "" when its program is over.
NextCall(r) ==
    IF prog.at[r] <= Len(prog.script) THEN prog.script[prog.at[r]] ELSE ""

Advance(r) == [prog EXCEPT !.at[r] = @ + 1]

\* Rank r calls shard(): the call returns in the same step.
CallShard(r) ==
    /\ r \in GroupRanks
    /\ NextCall(r) = "shard"
    /\ Shard(r)
    /\ prog' = Advance(r)

\* Rank r calls gather(): the call returns at once on a whole tensor, and
\* else stays in all_gather.
CallGather(r) ==
    /\ r \in GroupRanks
    /\ NextCall(r) = "gather"
    /\ GatherEnter(r)
    /\ prog' = IF sp[r].is_shared THEN prog ELSE Advance(r)

\* The all_gather of the group completes.
Collective ==
    /\ AllGather
    /\ UNCHANGED prog

\* Rank r returns from the gather() it was in.
FinishGather(r) ==
    /\ r \in GroupRanks
    /\ GatherReturn(r)
    /\ prog' = Advance(r)

NextBarrier ==
    \/ \E r \in GroupRanks : CallShard(r)
    \/ \E r \in GroupRanks : CallGather(r)
    \/ Collective
    \/ \E r \in GroupRanks : FinishGather(r)

\* Every process keeps running its program, and a collective every rank has
\* entered completes.
SpecBarrier ==
    /\ InitBarrier
    /\ [][NextBarrier]_vars
    /\ \A r \in 0..(MaxGroup - 1) :
          /\ WF_vars(CallShard(r))
          /\ WF_vars(CallGather(r))
          /\ WF_vars(FinishGather(r))
    /\ WF_vars(Collective)

\* ============================================================== claims
\* A step in which the s-th constructor call is made.
IsConstructStep(s) == pg[s].status = "none" /\ pg'[s].status # "none"

NoDuplicates(sq) == \A i, j \in 1..Len(sq) : i # j => sq[i] # sq[j]

\* C1: round trip.  When every rank of the group holds the same payload, a
\* rank that has returned from gather() is whole and holds the original
\* payload, element for element, in its original shape.
C1_RoundTrip ==
    tensor.data = "same" =>
        \A r \in DOMAIN sp :
            sp[r].did = "gather" =>
                /\ ~sp[r].is_shared
                /\ sp[r].payload = ParamData(tensor, r)
                /\ sp[r].shape = tensor.shape

\* Every rank of a group of 4 has sharded and gathered a 10-element tensor.
C1_Witness ==
    /\ tensor.data = "same"
    /\ tensor.world_size = 4
    /\ tensor.numel = 10
    /\ \A r \in DOMAIN sp : sp[r].did = "gather"

\* The nccl keys of an object's grid in registration order: rows 0..dp-1,
\* then columns 0..tp-1, by position in the sorted rank list.
GridKeys(p) ==
    [k \in 1..(p.dp_degree + p.tp_degree) |->
        IF k <= p.dp_degree
        THEN PgKey("nccl", SubSeq(p.rank_list, (k - 1) * p.tp_degree + 1,
                                  k * p.tp_degree))
        ELSE PgKey("nccl", [i \in 1..p.dp_degree |->
                               p.rank_list[(i - 1) * p.tp_degree + (k - p.dp_degree)]])]

\* The keys of a sequence that are not known and not earlier in it.
RECURSIVE Misses(_, _)
Misses(keys, known) ==
    IF keys = <<>> THEN <<>>
    ELSE IF Head(keys) \in known THEN Misses(Tail(keys), known)
    ELSE <<Head(keys)>> \o Misses(Tail(keys), known \cup {Head(keys)})

\* C2: the new_group calls a successful construction issues are the same for
\* every self_rank (same ranks, degrees and prior cache), and they are the
\* rows 0..dp_degree-1 and then the columns 0..tp_degree-1 that the cache did
\* not hold.
C2_SameCreateSequence ==
    [][\A s \in Slots :
         (IsConstructStep(s) /\ pg'[s].status = "ok") =>
            /\ \A r \in {NONE} \cup (0..(MaxRank + 1)) :
                  InitResult(dict, createLog, rt_rank, r, last'.ranks,
                             last'.tp, last'.dp).log = createLog'
            /\ createLog' = createLog \o Misses(GridKeys(pg'[s]), DOMAIN dict)]_vars

\* A construction over a cache that held some of its groups and not others.
C2_Witness ==
    /\ last.op = "construct"
    /\ pg[last.slot].status = "ok"
    /\ last.pre > 0
    /\ Len(createLog) > last.pre
    /\ Len(createLog) - last.pre < pg[last.slot].dp_degree + pg[last.slot].tp_degree

\* The keys of the cache that name the ranks of rank_list under backend.
SameRanksKeys(d, rank_list, backend) ==
    {k \in DOMAIN d : /\ k.backend = backend
                      /\ Len(k.ranks) = Len(rank_list)
                      /\ SeqToSet(k.ranks) = SeqToSet(rank_list)}

\* C3: a get() whose ranks were registered under the same backend, in
\* whatever order, returns the registered handle and creates no group.
C3_OrderInsensitiveGet ==
    [][(ngets' = ngets + 1
          /\ SameRanksKeys(dict, last'.ranks, last'.backend) # {}) =>
         /\ createLog' = createLog
         /\ \E k \in SameRanksKeys(dict, last'.ranks, last'.backend) :
               last'.ret = dict[k]]_vars

\* The key the last call looked up, for a direct get and for an accessor.
LookedUpKey ==
    CASE last.op = "get" -> PgKey(last.backend, last.ranks)
      [] last.op = "dp" -> PgKey("nccl", pg[last.slot].dp_rank_list)
      [] last.op = "tp" -> PgKey("nccl", pg[last.slot].tp_rank_list)
      [] last.op = "cpu_dp" -> PgKey("gloo", pg[last.slot].dp_rank_list)
      [] OTHER -> PgKey("gloo", pg[last.slot].tp_rank_list)

\* C4: new_group is called at most once per key, the cache holds exactly the
\* keys created, each with the handle its creation returned, and a lookup
\* returns that handle.
C4_CreateOncePerKey ==
    /\ NoDuplicates(createLog)
    /\ DOMAIN dict = SeqToSet(createLog)
    /\ \A i \in 1..Len(createLog) : dict[createLog[i]] = i
    /\ (last.op \in {"get"} \cup Accessors /\ last.ok) =>
          /\ last.ret \in 1..Len(createLog)
          /\ createLog[last.ret] = LookedUpKey

\* A direct get that hits a CPU group registered by set_cpu_groups.
C4_Witness ==
    /\ last.op = "get"
    /\ last.backend = "gloo"
    /\ last.ok
    /\ last.pre = Len(createLog)
    /\ \E s \in Slots : pg[s].status = "ok" /\ pg[s].has_cpu_groups

\* The rows and the columns of an object, as sets of ranks.
RowSets(p) ==
    {SeqToSet(TpList(p.rank_list, p.tp_degree, i)) : i \in 0..(p.dp_degree - 1)}
ColSets(p) ==
    {SeqToSet(DpList(p.rank_list, p.tp_degree, p.dp_degree, j)) :
        j \in 0..(p.tp_degree - 1)}

\* S is a partition of the set U into blocks.
IsPartition(S, U) ==
    /\ UNION S = U
    /\ \A x \in U : Cardinality({b \in S : x \in b}) = 1

\* C5: the rows a construction builds partition world_ranks, and so do the
\* columns; every one of them is registered in the cache.
C5_GridPartitions ==
    \A s \in Slots :
        pg[s].status = "ok" =>
            /\ Cardinality(RowSets(pg[s])) = pg[s].dp_degree
            /\ Cardinality(ColSets(pg[s])) = pg[s].tp_degree
            /\ IsPartition(RowSets(pg[s]), SeqToSet(pg[s].rank_list))
            /\ IsPartition(ColSets(pg[s]), SeqToSet(pg[s].rank_list))
            /\ \A i \in 0..(pg[s].dp_degree - 1) :
                  PgKey("nccl", TpList(pg[s].rank_list, pg[s].tp_degree, i))
                      \in DOMAIN dict
            /\ \A j \in 0..(pg[s].tp_degree - 1) :
                  PgKey("nccl", DpList(pg[s].rank_list, pg[s].tp_degree,
                                       pg[s].dp_degree, j)) \in DOMAIN dict

\* A 2 x 2 grid built from a list passed in descending order.
C5_Witness ==
    /\ last.op = "construct"
    /\ last.ranks = <<3, 2, 1, 0>>
    /\ pg[1].status = "ok"
    /\ pg[1].tp_degree = 2
    /\ pg[1].dp_degree = 2

\* The world size a constructor call sees, from the `ranks` it was passed.
PassedWorldSize(ranks) == IF ranks = NoList THEN MaxRank + 1 ELSE Len(ranks)

\* The sorted rank list a constructor call works on, from the `ranks` passed.
PassedSorted(ranks) ==
    IF ranks = NoList THEN [i \in 1..(MaxRank + 1) |-> i - 1]
    ELSE Ascending(SeqToSet(ranks))

\* C6: the grid is row-major over the sorted ranks, also for a list passed
\* unsorted: row i is positions [i*tp, i*tp + tp), column j is positions
\* i*tp + j; the groups created are exactly these; the object's row and
\* column are the ones that hold self_rank.
C6_RowMajorGrid ==
    (last.op = "construct" /\ pg[last.slot].status = "ok") =>
        LET p == pg[last.slot]
            sorted == PassedSorted(last.ranks)
            Row(i) == SubSeq(sorted, i * p.tp_degree + 1,
                             i * p.tp_degree + p.tp_degree)
            Col(j) == [i \in 1..p.dp_degree |-> sorted[(i - 1) * p.tp_degree + j + 1]]
            RowIdx == 0..(p.dp_degree - 1)
            ColIdx == 0..(p.tp_degree - 1)
        IN  /\ p.rank_list = sorted
            /\ {createLog[n] : n \in (last.pre + 1)..Len(createLog)}
                   \subseteq {PgKey("nccl", Row(i)) : i \in RowIdx}
                                \cup {PgKey("nccl", Col(j)) : j \in ColIdx}
            /\ \A i \in RowIdx : PgKey("nccl", Row(i)) \in DOMAIN dict
            /\ \A j \in ColIdx : PgKey("nccl", Col(j)) \in DOMAIN dict
            /\ \A i \in RowIdx : InList(p.rank, Row(i)) => p.tp_rank_list = Row(i)
            /\ \A j \in ColIdx : InList(p.rank, Col(j)) => p.dp_rank_list = Col(j)
            /\ (sorted = <<0, 1, 2, 3>> /\ p.tp_degree = 2 /\ p.dp_degree = 2
                  /\ p.rank = 1) =>
                  (p.tp_rank_list = <<0, 1>> /\ p.dp_rank_list = <<1, 3>>)

\* Rank 1 of a 2 x 2 grid built from [3, 2, 1, 0].
C6_Witness ==
    /\ last.op = "construct"
    /\ last.ranks = <<3, 2, 1, 0>>
    /\ pg[1].status = "ok"
    /\ pg[1].rank = 1
    /\ pg[1].tp_degree = 2
    /\ pg[1].dp_degree = 2
    /\ pg[1].tp_rank_list = <<0, 1>>
    /\ pg[1].dp_rank_list = <<1, 3>>

\* C7: degree resolution.  Neither degree given: dp = world_size, tp = 1.
\* One given: the other is world_size / given, and the call fails when the
\* given one does not divide world_size.  Both given: the call fails unless
\* tp * dp = world_size.  A constructed object has tp * dp = world_size.
C7_DegreeResolution ==
    (last.op = "construct" /\ pg[last.slot].status \in {"ok", "failed"}) =>
        LET p == pg[last.slot]
            ws == PassedWorldSize(last.ranks)
            ok == p.status = "ok"
            Divides(d) == d > 0 /\ ws % d = 0
        IN  /\ (last.tp = NONE /\ last.dp = NONE) =>
                  (ok /\ p.dp_degree = ws /\ p.tp_degree = 1)
            /\ (last.tp = NONE /\ last.dp # NONE) =>
                  IF Divides(last.dp)
                  THEN ok /\ p.dp_degree = last.dp /\ p.tp_degree = ws \div last.dp
                  ELSE ~ok
            /\ (last.tp # NONE /\ last.dp = NONE) =>
                  IF Divides(last.tp)
                  THEN ok /\ p.tp_degree = last.tp /\ p.dp_degree = ws \div last.tp
                  ELSE ~ok
            /\ (last.tp # NONE /\ last.dp # NONE) =>
                  /\ ok <=> (last.tp * last.dp = ws)
                  /\ ok => (p.tp_degree = last.tp /\ p.dp_degree = last.dp)
            /\ ok => p.tp_degree * p.dp_degree = ws

\* C8: a constructor call that fails on its degrees has created no group,
\* has left the cache as it was and the caller's list in the order passed.
C8_FailedConstructionMutatesNothing ==
    [][\A s \in Slots :
         (IsConstructStep(s) /\ pg'[s].status = "failed") =>
            /\ createLog' = createLog
            /\ dict' = dict
            /\ callerList' = callerList]_vars

\* C9: a set_cpu_groups call on an object whose CPU groups are materialized,
\* or that follows a successful one, creates no group, leaves the cache as
\* it was and the flag true, and the CPU accessors answer as before.
C9_SetCpuGroupsIdempotent ==
    [][\A s \in Slots :
         (/\ last'.op = "set_cpu_groups"
          /\ last'.slot = s
          /\ pg[s].status = "ok"
          /\ \/ pg[s].has_cpu_groups
             \/ (last.op = "set_cpu_groups" /\ last.slot = s /\ last.ok)) =>
            /\ last'.ok
            /\ createLog' = createLog
            /\ dict' = dict
            /\ pg'[s].has_cpu_groups
            /\ CpuDpProcessGroup(dict', createLog', pg'[s])
                  = CpuDpProcessGroup(dict, createLog, pg[s])
            /\ CpuTpProcessGroup(dict', createLog', pg'[s])
                  = CpuTpProcessGroup(dict, createLog, pg[s])]_vars

\* set_cpu_groups has returned twice on a 2 x 2 grid.
C9_Witness ==
    /\ last.op = "set_cpu_groups"
    /\ last.ok
    /\ last.pre = Len(createLog)
    /\ pg[1].status = "ok"
    /\ pg[1].has_cpu_groups
    /\ pg[1].tp_degree = 2
    /\ pg[1].dp_degree = 2

\* C10: on a constructed object a CPU accessor fails, creating nothing, while
\* set_cpu_groups has not completed on it; once it has, the accessor returns
\* the cached gloo handle of the object's column (row) and creates nothing.
C10_CpuAccessors ==
    [][\A s \in Slots :
         (/\ last' # last
          /\ last'.op \in {"cpu_dp", "cpu_tp"}
          /\ last'.slot = s
          /\ pg[s].status = "ok") =>
            /\ createLog' = createLog
            /\ dict' = dict
            /\ IF ~pg[s].has_cpu_groups THEN ~last'.ok
               ELSE /\ last'.ok
                    /\ last'.ret =
                          dict[PgKey("gloo", IF last'.op = "cpu_dp"
                                             THEN pg[s].dp_rank_list
                                             ELSE pg[s].tp_rank_list)]]_vars

\* The outcomes of the read-only accessors of an object.
ReadOutcomes(p) ==
    <<RankOf(p), RanksInGroup(p), WorldSize(p), TpRankList(p), DpRankList(p),
      TpLocalRank(p), DpLocalRank(p), DpWorldSize(p), TpWorldSize(p)>>

\* C11: a constructor call made while the runtime is not initialized leaves
\* an object with no rank data and creates no group; on such an object every
\* read-only accessor raises, and every group accessor and set_cpu_groups
\* raises without a new_group call or a change of the cache or the object.
C11_UninitializedTopology ==
    [][\A s \in Slots :
         /\ (IsConstructStep(s) /\ ~initialized) =>
               /\ pg'[s] = UninitPG
               /\ createLog' = createLog
               /\ dict' = dict
         /\ pg[s].status = "uninit" =>
               \A i \in 1..Len(ReadOutcomes(pg[s])) : ~ReadOutcomes(pg[s])[i].ok
         /\ (/\ pg[s].status = "uninit"
             /\ last' # last
             /\ last'.slot = s
             /\ last'.op \in Accessors \cup {"set_cpu_groups"}) =>
               /\ ~last'.ok
               /\ createLog' = createLog
               /\ dict' = dict
               /\ pg' = pg]_vars

\* set_cpu_groups has raised on an object constructed before the runtime was
\* initialized, with the runtime initialized since.
C11_Witness ==
    /\ initialized
    /\ pg[1].status = "uninit"
    /\ last.op = "set_cpu_groups"
    /\ last.slot = 1
    /\ ~last.ok

\* c is ceil(n / g).
IsCeilDiv(c, n, g) == c * g >= n /\ (c - 1) * g < n

\* C12: a rank whose tensor is whole holds origin_numel elements; a rank
\* whose tensor is sharded holds ceil(origin_numel / world_size) elements,
\* the same number on every rank (3 for 10 elements over 4 ranks).
C12_PayloadSize ==
    \A r \in DOMAIN sp :
        /\ ~sp[r].is_shared => Len(sp[r].payload) = tensor.numel
        /\ sp[r].is_shared =>
              /\ IsCeilDiv(Len(sp[r].payload), tensor.numel, tensor.world_size)
              /\ \A q \in DOMAIN sp :
                    sp[q].is_shared => Len(sp[q].payload) = Len(sp[r].payload)
              /\ (tensor.numel = 10 /\ tensor.world_size = 4) =>
                    Len(sp[r].payload) = 3

\* Ten elements over four ranks, rank 3 whole again after a gather and
\* ranks 0..2 each holding a shard of 3.
C12_Witness ==
    /\ tensor.numel = 10
    /\ tensor.world_size = 4
    /\ sp[3].did = "gather"
    /\ ~sp[3].is_shared
    /\ \A r \in 0..2 : sp[r].is_shared /\ Len(sp[r].payload) = 3

\* C13: a shard() on a sharded tensor and a gather() on a whole tensor change
\* nothing of the tensor (payload, state, shape) nor the recorded original
\* shape and numel, and the gather() contributes to no all_gather.
C13_NoOps ==
    [][\A r \in DOMAIN sp :
         /\ (/\ sp[r].pc = "idle" /\ sp'[r].pc = "idle"
             /\ sp[r].is_shared
             /\ sp'[r] # sp[r]) =>
               /\ sp'[r] = [sp[r] EXCEPT !.did = "shard_noop"]
               /\ tensor' = tensor
               /\ net' = net
         /\ (/\ sp[r].pc = "idle"
             /\ ~sp[r].is_shared /\ ~sp'[r].is_shared
             /\ sp'[r] # sp[r]) =>
               /\ sp'[r] = [sp[r] EXCEPT !.did = "gather_noop"]
               /\ tensor' = tensor
               /\ net' = net]_vars

\* One rank has called shard() on its shard and another gather() on its
\* whole tensor.
C13_Witness ==
    /\ \E r \in DOMAIN sp : sp[r].did = "shard_noop" /\ sp[r].is_shared
    /\ \E r \in DOMAIN sp : sp[r].did = "gather_noop" /\ ~sp[r].is_shared

\* C14: in a group of one rank no step of shard() or gather() changes the
\* payload or the state of the tensor.
C14_SingleRankNoOps ==
    [][tensor.world_size = 1 =>
         \A r \in DOMAIN sp :
             /\ sp'[r].payload = sp[r].payload
             /\ sp'[r].is_shared = sp[r].is_shared]_vars

\* C16: when the all_gather completes, every rank's buffer i holds the shard
\* rank i held on entry; the payload a rank returns with is the first
\* origin_numel elements of its buffers in rank order, in the original
\* shape, and what is cut off is zero padding.
C16_GatherResult ==
    [][/\ ((\A r \in DOMAIN sp : sp[r].pc = "all_gather")
          /\ (\A r \in DOMAIN sp : sp'[r].pc = "gathered")) =>
            \A r \in DOMAIN sp :
                /\ Len(sp'[r].buffer_list) = tensor.world_size
                /\ \A i \in DOMAIN sp : sp'[r].buffer_list[i + 1] = sp[i].payload
       /\ \A r \in DOMAIN sp :
             (sp[r].pc = "gathered" /\ sp'[r].pc = "idle") =>
                LET c == Len(sp[r].buffer_list[1])
                    At(k) == sp[r].buffer_list[((k - 1) \div c) + 1][((k - 1) % c) + 1]
                IN  /\ Len(sp'[r].payload) = tensor.numel
                    /\ \A k \in 1..tensor.numel : sp'[r].payload[k] = At(k)
                    /\ \A k \in (tensor.numel + 1)..(c * tensor.world_size) :
                          At(k) = 0
                    /\ sp'[r].shape = tensor.shape
                    /\ ~sp'[r].is_shared]_vars

\* Four ranks with payloads of their own have gathered ten elements: rank 0
\* holds rank 3's element at position 10.
C16_Witness ==
    /\ tensor.data = "own"
    /\ tensor.world_size = 4
    /\ tensor.numel = 10
    /\ \A r \in DOMAIN sp : sp[r].did = "gather"
    /\ sp[0].payload[10] = 410
    /\ sp[0].payload[1] = 101

\* C18: no rank leaves the all_gather of its gather() unless every rank of
\* the group is in the all_gather of the same call of the program; when
\* every rank runs the same program, a rank in a gather() returns from it
\* and every rank reaches the end of the program; a rank that is to call
\* shard() can do so whatever the other ranks are doing.
C18_GatherBarrier ==
    /\ [][\A r \in DOMAIN sp :
            (sp[r].pc = "all_gather" /\ sp'[r].pc # "all_gather") =>
                \A q \in DOMAIN sp :
                    sp[q].pc = "all_gather" /\ prog.at[q] = prog.at[r]]_vars
    /\ \A r \in 0..(MaxGroup - 1) :
          (r \in DOMAIN sp /\ sp[r].pc # "idle")
              ~> (r \in DOMAIN sp /\ sp[r].pc = "idle")
    /\ \A r \in 0..(MaxGroup - 1) :
          <>(r \in DOMAIN sp => prog.at[r] > Len(prog.script))
    /\ [](\A r \in DOMAIN sp : NextCall(r) = "shard" => ENABLED CallShard(r))

\* Four ranks have run shard() and gather() to the end.
C18_Witness ==
    /\ prog.script = <<"shard", "gather">>
    /\ tensor.world_size = 4
    /\ \A r \in DOMAIN sp : prog.at[r] = 3 /\ sp[r].did = "gather"

\* C15: two constructed objects with the same self_rank, world ranks and
\* degrees compare equal; with the same world ranks and degrees and different
\* self_rank they compare unequal; __eq__ is true exactly when self_rank,
\* world ranks, row, column and both degrees are equal.
C15_Equality ==
    \A s, t \in Slots :
        (pg[s].status = "ok" /\ pg[t].status = "ok") =>
            LET p == pg[s]
                q == pg[t]
                sameGrid == /\ p.rank_list = q.rank_list
                            /\ p.tp_degree = q.tp_degree
                            /\ p.dp_degree = q.dp_degree
                eq == ProcessGroupEq(p, q)
            IN  /\ eq.ok
                /\ (sameGrid /\ p.rank = q.rank) => eq.val
                /\ (sameGrid /\ p.rank # q.rank) => ~eq.val
                /\ eq.val <=> /\ p.rank = q.rank
                              /\ p.rank_list = q.rank_list
                              /\ p.tp_rank_list = q.tp_rank_list
                              /\ p.dp_rank_list = q.dp_rank_list
                              /\ p.tp_degree = q.tp_degree
                              /\ p.dp_degree = q.dp_degree

\* Two 2 x 2 grids over the same four ranks, built as rank 0 and as rank 1.
C15_Witness ==
    /\ pg[1].status = "ok"
    /\ pg[2].status = "ok"
    /\ pg[1].rank = 0
    /\ pg[2].rank = 1
    /\ pg[1].rank_list = <<0, 1, 2, 3>>
    /\ pg[2].rank_list = <<0, 1, 2, 3>>
    /\ pg[1].tp_degree = 2
    /\ pg[2].tp_degree = 2
    /\ ~ProcessGroupEq(pg[1], pg[2]).val

\* A step in which the only constructor call succeeds on an empty cache.
ConstructsOnEmptyCache ==
    /\ IsConstructStep(1)
    /\ pg'[1].status = "ok"
    /\ dict = << >>
    /\ createLog = << >>

\* A step in which dp_process_group or tp_process_group is called on a
\* constructed object.
CallsPrimaryAccessor ==
    /\ last' # last
    /\ last'.op \in {"dp", "tp"}
    /\ pg[last'.slot].status = "ok"

\* C17 as stated: a successful construction on an empty cache issues exactly
\* dp_degree + tp_degree new_group calls, and a later dp_process_group or
\* tp_process_group call issues none.
C17_EagerCreation ==
    [][/\ ConstructsOnEmptyCache =>
            Len(createLog') = pg'[1].dp_degree + pg'[1].tp_degree
       /\ CallsPrimaryAccessor => createLog' = createLog]_vars

\* C17 amended: a successful construction on an empty cache issues one
\* new_group call for every different rank list among its rows and columns,
\* which is dp_degree + tp_degree calls unless world_size is 1, where the row
\* and the column are the same list and one call is issued; a later
\* dp_process_group or tp_process_group call issues none.
C17_EagerCreationPerList ==
    [][/\ ConstructsOnEmptyCache =>
            /\ Len(createLog') =
                  Cardinality({GridKeys(pg'[1])[k] : k \in DOMAIN GridKeys(pg'[1])})
            /\ Len(createLog') = IF pg'[1].world_size = 1 THEN 1
                                 ELSE pg'[1].dp_degree + pg'[1].tp_degree
       /\ CallsPrimaryAccessor => createLog' = createLog]_vars

\* dp_process_group has returned on a 2 x 2 grid whose four groups the
\* construction created.
C17_Witness ==
    /\ last.op = "dp"
    /\ last.ok
    /\ pg[1].status = "ok"
    /\ pg[1].tp_degree = 2
    /\ pg[1].dp_degree = 2
    /\ Len(createLog) = 4

\* The 0-based position of x in the list sq that holds it.
PositionIn(x, sq) == (CHOOSE i \in 1..Len(sq) : sq[i] = x) - 1

\* C19: on a constructed object whose self_rank is one of its ranks,
\* tp_local_rank() is the position of self_rank in its row and lies in
\* [0, tp_degree), and dp_local_rank() is the position of self_rank in its
\* column and lies in [0, dp_degree).
C19_LocalIndices ==
    \A s \in Slots :
        (pg[s].status = "ok" /\ InList(pg[s].rank, pg[s].rank_list)) =>
            LET p == pg[s]
            IN  /\ TpLocalRank(p) = Returns(PositionIn(p.rank, p.tp_rank_list))
                /\ DpLocalRank(p) = Returns(PositionIn(p.rank, p.dp_rank_list))
                /\ TpLocalRank(p).val \in 0..(p.tp_degree - 1)
                /\ DpLocalRank(p).val \in 0..(p.dp_degree - 1)

\* C20: a constructed object has its row and its column set, each holding
\* self_rank, the row of tp_degree ranks and the column of dp_degree ranks,
\* and tp_world_size() and dp_world_size() return these sizes.
C20_RowAndColumnSet ==
    \A s \in Slots :
        pg[s].status = "ok" =>
            LET p == pg[s]
            IN  /\ p.tp_rank_list # NoList
                /\ p.dp_rank_list # NoList
                /\ InList(p.rank, p.tp_rank_list)
                /\ InList(p.rank, p.dp_rank_list)
                /\ TpWorldSize(p) = Returns(p.tp_degree)
                /\ DpWorldSize(p) = Returns(p.dp_degree)

====
